---------------------------- MODULE Spec2Model ----------------------------
(***************************************************************************)
(* Model of src-tauri/src/lib.rs: the three Tauri commands get_drives,     *)
(* scan_directory_fast and get_folder_size, with the helpers calc_size     *)
(* and direct_child_count, run against a small read-only filesystem.       *)
(***************************************************************************)
EXTENDS Integers, Sequences, FiniteSets, TLC

(***************************************************************************)
(* Bounds of the model.                                                    *)
(***************************************************************************)
MaxNodes == 3
\* entries below the top directory
MaxLen == 1
\* largest byte length reported for an entry
MaxCalls == 2
\* get_folder_size invocations in flight at once
MaxDisks == 2
\* disks reported by sysinfo
WordBits == 2
\* width of the unsigned words of DriveInfo (u64 scaled down)

Top == 0
Missing == 0 - 1
Nodes == 1..MaxNodes
AllNodes == 0..MaxNodes
Paths == AllNodes \cup {Missing}
Calls == 1..MaxCalls
MaxDepth == MaxNodes + 2
MaxHops == MaxNodes + 1

(***************************************************************************)
(* The filesystem.  Node 0 is a directory; node n > 0 is an entry of the   *)
(* directory parent[n].  An entry has a type, the length its metadata      *)
(* reports, whether symlink_metadata succeeds on it, whether read_dir      *)
(* succeeds on it, and (for a symlink) its target.  An entry whose         *)
(* metadata cannot be read cannot be opened either: both calls look up the *)
(* same path.  Directories and links report a length of their own.         *)
(***************************************************************************)
DirOk == [kind |-> "dir", len |-> MaxLen, meta |-> TRUE, open |-> TRUE, target |-> Missing]
DirNoOpen == [kind |-> "dir", len |-> MaxLen, meta |-> TRUE, open |-> FALSE, target |-> Missing]
DirNoMeta == [kind |-> "dir", len |-> MaxLen, meta |-> FALSE, open |-> FALSE, target |-> Missing]
FileOf(l) == [kind |-> "file", len |-> l, meta |-> TRUE, open |-> FALSE, target |-> Missing]
SymlinkTo(t) == [kind |-> "symlink", len |-> MaxLen, meta |-> TRUE, open |-> FALSE, target |-> t]
Other == [kind |-> "other", len |-> MaxLen, meta |-> TRUE, open |-> FALSE, target |-> Missing]

EntryClasses ==
  {DirOk, DirNoOpen, DirNoMeta, Other}
    \cup {FileOf(l) : l \in 0..MaxLen}
    \cup {SymlinkTo(t) : t \in Paths}

ParentFns == {p \in [Nodes -> 0..(MaxNodes - 1)] : \A n \in Nodes : p[n] < n}

DefaultName(n) == <<97 + n>>

TreeOk(p, e) == \A n \in Nodes : e[p[n]].kind = "dir"

Filesystems ==
  {[parent |-> p, ent |-> e, name |-> [n \in AllNodes |-> DefaultName(n)]] :
     <<p, e>> \in {pe \in ParentFns \X [AllNodes -> EntryClasses] :
                     pe[2][Top] = DirOk /\ TreeOk(pe[1], pe[2])}}

\* trees of readable directories, files and symlinks to anywhere: to an
\* ancestor, to each other, to themselves, to nothing
FilesystemsLinks ==
  {f \in Filesystems :
     \A n \in Nodes : f.ent[n] \in {DirOk, FileOf(MaxLen)} \/ f.ent[n].kind = "symlink"}

\* the trees the concurrent calls walk: readable directories and files
FilesystemsConc ==
  {f \in Filesystems : \A n \in Nodes : f.ent[n] \in {DirOk, FileOf(MaxLen)}}

VARIABLES fs, pc, root, stack, ret, result, opened, credited, overlapped,
          listing, disks, drives

vars == <<fs, pc, root, stack, ret, result, opened, credited, overlapped,
          listing, disks, drives>>

aggVars == <<pc, root, stack, ret, result, opened, credited, overlapped>>

(***************************************************************************)
(* std::fs as the code uses it.                                            *)
(***************************************************************************)
\* the node a path names once symlinks are followed, as open(2) and stat(2)
\* do; a chain longer than MaxHops is a loop and fails (ELOOP)
RECURSIVE ResolveHops(_, _, _)
ResolveHops(f, p, hops) ==
  IF p = Missing THEN Missing
  ELSE IF f.ent[p].kind # "symlink" THEN p
  ELSE IF hops = 0 THEN Missing
  ELSE ResolveHops(f, f.ent[p].target, hops - 1)

Resolve(f, p) == ResolveHops(f, p, MaxHops)

\* fs::read_dir(path) is Ok
ReadDirOk(f, p) ==
  /\ Resolve(f, p) # Missing
  /\ f.ent[Resolve(f, p)].kind = "dir"
  /\ f.ent[Resolve(f, p)].open

\* the entries fs::read_dir(path) yields
ReadDir(f, p) == {n \in Nodes : f.parent[n] = Resolve(f, p)}

\* entry_path.symlink_metadata() is Ok
SymlinkMetadataOk(f, n) == f.ent[n].meta

\* is_dir() of fs::metadata, which follows links
MetaIsDirFollow(f, n) ==
  /\ Resolve(f, n) # Missing
  /\ f.ent[Resolve(f, n)].kind = "dir"

\* meta.is_dir() on the metadata of the entry itself
MetaIsDir(f, n) == f.ent[n].kind = "dir"

\* is_file() of fs::metadata, which follows links
MetaIsFileFollow(f, n) ==
  /\ Resolve(f, n) # Missing
  /\ f.ent[Resolve(f, n)].kind = "file"

\* meta.is_file()
MetaIsFile(f, n) == f.ent[n].kind = "file"

\* meta.len()
MetaLen(f, n) == f.ent[n].len

(***************************************************************************)
(* calc_size as a function: (total_bytes, item_count).  The totals are u64 *)
(* in the code; the lengths of the model keep every sum far below 2^64.    *)
(***************************************************************************)
RECURSIVE calc_size(_, _)
RECURSIVE calc_size_loop(_, _, _)

calc_size_entry(f, e, acc) ==
  IF ~SymlinkMetadataOk(f, e) THEN acc
  ELSE IF MetaIsDir(f, e)
    THEN LET sc == calc_size(f, e) IN <<acc[1] + sc[1], acc[2] + 1 + sc[2]>>
  ELSE IF MetaIsFile(f, e)
    THEN <<acc[1] + MetaLen(f, e), acc[2] + 1>>
  ELSE <<acc[1], acc[2] + 1>>

calc_size_loop(f, todo, acc) ==
  IF todo = {} THEN acc
  ELSE LET e == CHOOSE x \in todo : TRUE
       IN calc_size_loop(f, todo \ {e}, calc_size_entry(f, e, acc))

calc_size(f, p) ==
  IF ~ReadDirOk(f, p) THEN <<0, 0>>
  ELSE calc_size_loop(f, ReadDir(f, p), <<0, 0>>)

(***************************************************************************)
(* get_folder_size: calc_size run step by step on a blocking thread, one   *)
(* stack frame per active call of calc_size.  The runs modelled are those  *)
(* in which the runtime schedules and joins the blocking task.             *)
(***************************************************************************)
Frame(d, todo) == [dir |-> d, todo |-> todo, total_size |-> 0, total_count |-> 0]

NoCredit == [n \in AllNodes |-> [count |-> 0, bytes |-> 0]]
NoOpened == [n \in AllNodes |-> 0]
NoResult == [tag |-> "None", size |-> 0, item_count |-> 0]

\* one current frame for the whole process
TopFrameShared(st, c) ==
  IF st[1] # <<>> THEN st[1][Len(st[1])] ELSE st[c][Len(st[c])]

\* the frame whose loop call c is executing: locals of that call
TopFrame(st, c) == st[c][Len(st[c])]

SetTop(s, fr) == [s EXCEPT ![Len(s)] = fr]

\* total_count += 1
CountEntry(fr) == [fr EXCEPT !.total_count = @ + 1]

\* total_size += meta.len()
AddLen(fr, l) == [fr EXCEPT !.total_size = @ + l]

\* the child's item count is dropped
AddChildSizeOnly(fr, s, c) == [fr EXCEPT !.total_size = @ + s]

\* total_size += s; total_count += c
AddChild(fr, s, c) == [fr EXCEPT !.total_size = @ + s, !.total_count = @ + c]

\* a root that cannot be read fails the command
FolderSizeStrict(f, path, sc) ==
  IF ReadDirOk(f, path)
    THEN [tag |-> "Ok", size |-> sc[1], item_count |-> sc[2]]
    ELSE [tag |-> "Err", size |-> 0, item_count |-> 0]

\* let (size, item_count) = calc_size(..); Ok(FolderSize { size, item_count })
FolderSize(f, path, sc) == [tag |-> "Ok", size |-> sc[1], item_count |-> sc[2]]

InitCalls ==
  /\ pc = [c \in Calls |-> "idle"]
  /\ root = [c \in Calls |-> Missing]
  /\ stack = [c \in Calls |-> <<>>]
  /\ ret = [c \in Calls |-> <<0, 0>>]
  /\ result = [c \in Calls |-> NoResult]
  /\ opened = [c \in Calls |-> NoOpened]
  /\ credited = [c \in Calls |-> NoCredit]
  /\ overlapped = FALSE

\* the command is invoked: the closure is handed to spawn_blocking
get_folder_size(c, path) ==
  /\ pc[c] = "idle"
  /\ pc' = [pc EXCEPT ![c] = "spawned"]
  /\ root' = [root EXCEPT ![c] = path]
  /\ UNCHANGED <<fs, stack, ret, result, opened, credited, overlapped>>
  /\ UNCHANGED <<listing, disks, drives>>

\* calc_size(Path::new(&path)): the read_dir of the root
CalcSizeRoot(c) ==
  /\ pc[c] = "spawned"
  /\ IF ReadDirOk(fs, root[c])
       THEN /\ stack' = [stack EXCEPT ![c] = <<Frame(root[c], ReadDir(fs, root[c]))>>]
            /\ opened' = [opened EXCEPT ![c][Resolve(fs, root[c])] = @ + 1]
            /\ pc' = [pc EXCEPT ![c] = "walking"]
            /\ ret' = ret
       ELSE /\ ret' = [ret EXCEPT ![c] = <<0, 0>>]
            /\ pc' = [pc EXCEPT ![c] = "returned"]
            /\ UNCHANGED <<stack, opened>>
  /\ UNCHANGED <<fs, root, result, credited, overlapped>>
  /\ UNCHANGED <<listing, disks, drives>>

\* one iteration of `for entry in read_dir.flatten()`; a call that would
\* nest deeper than MaxDepth has exhausted the thread's stack and goes no
\* further
CalcSizeEntry(c, e) ==
  /\ pc[c] = "walking"
  /\ e \in TopFrame(stack, c).todo
  /\ LET rest == [TopFrame(stack, c) EXCEPT !.todo = @ \ {e}]
     IN IF ~SymlinkMetadataOk(fs, e)
          THEN /\ stack' = [stack EXCEPT ![c] = SetTop(@, rest)]
               /\ UNCHANGED <<opened, credited>>
        ELSE IF MetaIsDir(fs, e)
          THEN /\ credited' = [credited EXCEPT ![c][e].count = @ + 1]
               /\ IF ReadDirOk(fs, e)
                    THEN /\ Len(stack[c]) < MaxDepth
                         /\ stack' = [stack EXCEPT ![c] =
                                        Append(SetTop(@, CountEntry(rest)),
                                               Frame(e, ReadDir(fs, e)))]
                         /\ opened' = [opened EXCEPT ![c][Resolve(fs, e)] = @ + 1]
                    ELSE /\ stack' = [stack EXCEPT ![c] =
                                        SetTop(@, AddChild(CountEntry(rest), 0, 0))]
                         /\ opened' = opened
        ELSE IF MetaIsFile(fs, e)
          THEN /\ stack' = [stack EXCEPT ![c] =
                              SetTop(@, AddLen(CountEntry(rest), MetaLen(fs, e)))]
               /\ credited' = [credited EXCEPT ![c][e] =
                                 [count |-> @.count + 1,
                                  bytes |-> @.bytes + MetaLen(fs, e)]]
               /\ opened' = opened
        ELSE /\ stack' = [stack EXCEPT ![c] = SetTop(@, CountEntry(rest))]
             /\ credited' = [credited EXCEPT ![c][e].count = @ + 1]
             /\ opened' = opened
  /\ overlapped' = (overlapped \/ \E d \in Calls \ {c} : pc[d] = "walking")
  /\ UNCHANGED <<fs, pc, root, ret, result>>
  /\ UNCHANGED <<listing, disks, drives>>

\* the loop is over: (total_size, total_count) goes back to the caller
CalcSizeReturn(c) ==
  /\ pc[c] = "walking"
  /\ TopFrame(stack, c).todo = {}
  /\ LET fr == TopFrame(stack, c)
         below == SubSeq(stack[c], 1, Len(stack[c]) - 1)
     IN IF below = <<>>
          THEN /\ ret' = [ret EXCEPT ![c] = <<fr.total_size, fr.total_count>>]
               /\ stack' = [stack EXCEPT ![c] = <<>>]
               /\ pc' = [pc EXCEPT ![c] = "returned"]
          ELSE /\ stack' = [stack EXCEPT ![c] =
                              SetTop(below, AddChild(below[Len(below)],
                                                     fr.total_size, fr.total_count))]
               /\ UNCHANGED <<ret, pc>>
  /\ UNCHANGED <<fs, root, result, opened, credited, overlapped>>
  /\ UNCHANGED <<listing, disks, drives>>

\* .await on the JoinHandle: the closure's value is the command's result
JoinFolderSize(c) ==
  /\ pc[c] = "returned"
  /\ result' = [result EXCEPT ![c] = FolderSize(fs, root[c], ret[c])]
  /\ pc' = [pc EXCEPT ![c] = "done"]
  /\ UNCHANGED <<fs, root, stack, ret, opened, credited, overlapped>>
  /\ UNCHANGED <<listing, disks, drives>>

NoListing == [tag |-> "None", path |-> Missing, entries |-> <<>>]

InitIdleRest ==
  /\ listing = NoListing
  /\ disks = <<>>
  /\ drives = [tag |-> "None", list |-> <<>>]

CallStep(c) ==
  \/ CalcSizeRoot(c)
  \/ \E e \in Nodes : CalcSizeEntry(c, e)
  \/ CalcSizeReturn(c)
  \/ JoinFolderSize(c)

\* one get_folder_size call over any filesystem
InitAgg ==
  /\ fs \in Filesystems
  /\ InitCalls
  /\ InitIdleRest

NextAgg ==
  \/ \E p \in Paths : get_folder_size(1, p)
  \/ CalcSizeRoot(1)
  \/ \E e \in Nodes : CalcSizeEntry(1, e)
  \/ CalcSizeReturn(1)
  \/ JoinFolderSize(1)

SpecAgg == InitAgg /\ [][NextAgg]_vars

\* one call over a tree with symlinks; the blocking pool runs a spawned
\* closure to its end
InitLinks ==
  /\ fs \in FilesystemsLinks
  /\ InitCalls
  /\ InitIdleRest

SpecLinksFair == InitLinks /\ [][NextAgg]_vars /\ WF_vars(CallStep(1))

\* MaxCalls get_folder_size calls, interleaved step by step, each on an
\* entry of the top directory as the frontend issues them
InitConc ==
  /\ fs \in FilesystemsConc
  /\ InitCalls
  /\ InitIdleRest

NextConc ==
  \/ \E c \in Calls, p \in ReadDir(fs, Top) : get_folder_size(c, p)
  \/ \E c \in Calls : CalcSizeRoot(c)
  \/ \E c \in Calls, e \in Nodes : CalcSizeEntry(c, e)
  \/ \E c \in Calls : CalcSizeReturn(c)
  \/ \E c \in Calls : JoinFolderSize(c)

SpecConc == InitConc /\ [][NextConc]_vars

(***************************************************************************)
(* scan_directory_fast: the listing of one directory.                      *)
(***************************************************************************)
\* "B", "ab", "Ab" as code points
Names == {<<66>>, <<97, 98>>, <<65, 98>>}

ListClasses ==
  {DirOk, DirNoOpen, DirNoMeta, Other, SymlinkTo(Top), FileOf(MaxLen)}

SiblingsDistinct(p, nm) ==
  \A m, n \in Nodes : (m # n /\ p[m] = p[n]) => nm[m] # nm[n]

\* the orders in which the operating system may hand out the entries
Perms(S) ==
  {q \in [1..Cardinality(S) -> S] : \A i, j \in 1..Cardinality(S) : q[i] = q[j] => i = j}

DirOrders(f, path) == IF ReadDirOk(f, path) THEN Perms(ReadDir(f, path)) ELSE {<<>>}

\* counts only what scan_directory_fast would list
direct_child_count_listed(f, p) ==
  IF ReadDirOk(f, p)
    THEN Cardinality({n \in ReadDir(f, p) :
                        SymlinkMetadataOk(f, n) /\ (MetaIsDir(f, n) \/ MetaIsFile(f, n))})
    ELSE 0

\* fs::read_dir(path).map(|rd| rd.count() as u64).unwrap_or(0)
direct_child_count(f, p) ==
  IF ReadDirOk(f, p) THEN Cardinality(ReadDir(f, p)) ELSE 0

FsEntry(f, e, size, is_dir, item_count) ==
  [name |-> f.name[e], path |-> e, size |-> size, is_dir |-> is_dir,
   item_count |-> item_count]

\* classifies by fs::metadata, which follows links
scan_entry_follow(f, e) ==
  IF ~SymlinkMetadataOk(f, e) THEN <<>>
  ELSE IF MetaIsDirFollow(f, e)
    THEN <<FsEntry(f, e, 0, TRUE, direct_child_count(f, e))>>
  ELSE IF MetaIsFileFollow(f, e)
    THEN <<FsEntry(f, e, MetaLen(f, Resolve(f, e)), FALSE, 0)>>
  ELSE <<>>

\* the filter_map closure: Some(FsEntry) as <<entry>>, None as <<>>
scan_entry(f, e) ==
  IF ~SymlinkMetadataOk(f, e) THEN <<>>
  ELSE IF MetaIsDir(f, e)
    THEN <<FsEntry(f, e, 0, TRUE, direct_child_count(f, e))>>
  ELSE IF MetaIsFile(f, e)
    THEN <<FsEntry(f, e, MetaLen(f, e), FALSE, 0)>>
  ELSE <<>>

RECURSIVE filter_map(_, _)
filter_map(f, order) ==
  IF order = <<>> THEN <<>>
  ELSE scan_entry(f, Head(order)) \o filter_map(f, Tail(order))

\* str::to_lowercase on ASCII names
to_lowercase(s) ==
  [i \in 1..Len(s) |-> IF s[i] >= 65 /\ s[i] <= 90 THEN s[i] + 32 ELSE s[i]]

\* Ord for String: -1 Less, 0 Equal, 1 Greater
RECURSIVE str_cmp(_, _)
str_cmp(s, t) ==
  IF s = <<>> /\ t = <<>> THEN 0
  ELSE IF s = <<>> THEN 0 - 1
  ELSE IF t = <<>> THEN 1
  ELSE IF Head(s) < Head(t) THEN 0 - 1
  ELSE IF Head(s) > Head(t) THEN 1
  ELSE str_cmp(Tail(s), Tail(t))

\* Ord for bool: false < true
bool_cmp(a, b) == IF a = b THEN 0 ELSE IF b THEN 0 - 1 ELSE 1

\* compares the names as they are
entry_cmp_cased(a, b) ==
  IF bool_cmp(b.is_dir, a.is_dir) # 0 THEN bool_cmp(b.is_dir, a.is_dir)
  ELSE str_cmp(a.name, b.name)

\* b.is_dir.cmp(&a.is_dir).then_with(|| lowercase names compared)
entry_cmp(a, b) ==
  IF bool_cmp(b.is_dir, a.is_dir) # 0 THEN bool_cmp(b.is_dir, a.is_dir)
  ELSE str_cmp(to_lowercase(a.name), to_lowercase(b.name))

\* x goes behind every element that is not greater than it
RECURSIVE insert_sorted(_, _)
insert_sorted(sorted, x) ==
  IF sorted = <<>> THEN <<x>>
  ELSE IF entry_cmp(Head(sorted), x) > 0 THEN <<x>> \o sorted
  ELSE <<Head(sorted)>> \o insert_sorted(Tail(sorted), x)

\* entries.sort_by(..): a stable sort
RECURSIVE sort_by(_)
sort_by(s) ==
  IF s = <<>> THEN <<>>
  ELSE insert_sorted(sort_by(SubSeq(s, 1, Len(s) - 1)), s[Len(s)])

\* one unreadable child fails the listing
scan_directory_fast_strict(f, path, order) ==
  IF ~ReadDirOk(f, path) \/ \E n \in ReadDir(f, path) : ~SymlinkMetadataOk(f, n)
    THEN [tag |-> "Err", path |-> path, entries |-> <<>>]
    ELSE [tag |-> "Ok", path |-> path, entries |-> sort_by(filter_map(f, order))]

\* the command's Result: Err(message) or Ok(entries)
scan_directory_fast(f, path, order) ==
  IF ~ReadDirOk(f, path)
    THEN [tag |-> "Err", path |-> path, entries |-> <<>>]
    ELSE [tag |-> "Ok", path |-> path, entries |-> sort_by(filter_map(f, order))]

\* the command is invoked once in a behaviour: it keeps no state that a
\* second invocation could see
ScanDirectoryFast(path, order) ==
  /\ listing.tag = "None"
  /\ listing' = scan_directory_fast(fs, path, order)
  /\ UNCHANGED <<fs, disks, drives>>
  /\ UNCHANGED aggVars

InitList ==
  /\ \E p \in ParentFns, e \in [AllNodes -> ListClasses] :
       /\ e[Top] = DirOk
       /\ TreeOk(p, e)
       /\ \E nm \in [Nodes -> Names] :
            /\ SiblingsDistinct(p, nm)
            /\ fs = [parent |-> p, ent |-> e,
                     name |-> [n \in AllNodes |-> IF n = Top THEN <<>> ELSE nm[n]]]
  /\ InitCalls
  /\ listing = NoListing
  /\ disks = <<>>
  /\ drives = [tag |-> "None", list |-> <<>>]

NextList == \E path \in Paths : \E order \in DirOrders(fs, path) : ScanDirectoryFast(path, order)

SpecList == InitList /\ [][NextList]_vars

(***************************************************************************)
(* get_drives: one DriveInfo per disk that sysinfo reports.                *)
(***************************************************************************)
WordModulus == 2 ^ WordBits
Words == 0..(WordModulus - 1)

Disk == [total_space : Words, available_space : Words]

DiskLists == UNION {[1..k -> Disk] : k \in 0..MaxDisks}

\* u64::wrapping_sub
wrapping_sub(a, b) == (a - b + WordModulus) % WordModulus

\* u64::saturating_sub
saturating_sub(a, b) == IF a >= b THEN a - b ELSE 0

DriveInfo(d) ==
  [total_space |-> d.total_space,
   available_space |-> d.available_space,
   used_space |-> saturating_sub(d.total_space, d.available_space)]

get_drives ==
  /\ drives.tag = "None"
  /\ drives' = [tag |-> "Ok", list |-> [i \in 1..Len(disks) |-> DriveInfo(disks[i])]]
  /\ UNCHANGED <<fs, listing, disks>>
  /\ UNCHANGED aggVars

\* a top directory holding empty directories
PlainFs ==
  [parent |-> [n \in Nodes |-> Top], ent |-> [n \in AllNodes |-> DirOk],
   name |-> [n \in AllNodes |-> DefaultName(n)]]

InitVol ==
  /\ fs = PlainFs
  /\ InitCalls
  /\ listing = NoListing
  /\ disks \in DiskLists
  /\ drives = [tag |-> "None", list |-> <<>>]

NextVol == get_drives

SpecVol == InitVol /\ [][NextVol]_vars

(***************************************************************************)
(* What a walk from a root measures, stated over the tree and not over the *)
(* walk: the entries below the root whose metadata can be read and whose   *)
(* ancestors up to the root are all directories that were read and opened. *)
(***************************************************************************)
Passable(f, m) == f.ent[m].kind = "dir" /\ f.ent[m].meta /\ f.ent[m].open

RECURSIVE Below(_, _, _)
Below(f, n, d) ==
  /\ n \in Nodes
  /\ \/ f.parent[n] = d
     \/ Passable(f, f.parent[n]) /\ Below(f, f.parent[n], d)

Measured(f, r) ==
  IF ReadDirOk(f, r)
    THEN {n \in Nodes : Below(f, n, Resolve(f, r)) /\ f.ent[n].meta}
    ELSE {}

RECURSIVE SumLen(_, _)
SumLen(f, S) ==
  IF S = {} THEN 0
  ELSE LET n == CHOOSE x \in S : TRUE IN f.ent[n].len + SumLen(f, S \ {n})

FilesIn(f, S) == {n \in S : f.ent[n].kind = "file"}

\* the entries of the tree under a directory, by parent links alone
RECURSIVE Under(_, _, _)
Under(f, n, d) ==
  /\ n \in Nodes
  /\ (f.parent[n] = d \/ Under(f, f.parent[n], d))

\* C1: a finished aggregate_size reports as size the summed byte lengths of
\* the regular files, and as item_count the number of entries, among exactly
\* the entries with readable metadata reached from the root through
\* directories that could be opened.
C1_SizeAndCount ==
  \A c \in Calls :
    pc[c] = "done" =>
      /\ result[c].size = SumLen(fs, FilesIn(fs, Measured(fs, root[c])))
      /\ result[c].item_count = Cardinality(Measured(fs, root[c]))

\* A holds B and an unreadable entry; B holds one file of MaxLen bytes and a
\* sibling: the walk of A has returned {MaxLen, 2}
C1_Witness ==
  /\ pc[1] = "done"
  /\ root[1] = Top
  /\ MaxNodes >= 3
  /\ fs.ent[1] = DirOk /\ fs.parent[1] = Top
  /\ fs.ent[2] = DirNoMeta /\ fs.parent[2] = Top
  /\ fs.ent[3] = FileOf(MaxLen) /\ fs.parent[3] = 1
  /\ \A n \in Nodes : n > 3 => fs.parent[n] = 2
  /\ result[1] = [tag |-> "Ok", size |-> MaxLen, item_count |-> 2]

\* C3: aggregate_size on a root that is missing, is no directory or cannot
\* be opened returns Ok {size: 0, item_count: 0}, never an error.
C3_UnreadableRootIsZero ==
  \A c \in Calls :
    (pc[c] = "done" /\ ~ReadDirOk(fs, root[c])) =>
      result[c] = [tag |-> "Ok", size |-> 0, item_count |-> 0]

\* the root is a directory that holds a file but cannot be opened
C3_Witness ==
  /\ pc[1] = "done"
  /\ root[1] # Missing
  /\ fs.ent[root[1]] = DirNoOpen
  /\ \E n \in Nodes : fs.parent[n] = root[1] /\ fs.ent[n] = FileOf(MaxLen)
  /\ result[1] = [tag |-> "Ok", size |-> 0, item_count |-> 0]

\* C4: a symlink (or other non-file, non-directory entry) is credited at
\* most once and with zero bytes, exactly once when the walk that read its
\* directory has finished; only the root and real directories under it are
\* ever opened, and only entries under the root by real parent links are
\* ever counted or sized.
C4_SymlinksNotFollowed ==
  \A c \in Calls :
    /\ \A n \in Nodes :
         ~(fs.ent[n].kind \in {"dir", "file"}) =>
           /\ credited[c][n].bytes = 0
           /\ credited[c][n].count <= 1
           /\ (pc[c] = "done" /\ n \in Measured(fs, root[c]))
                => credited[c][n].count = 1
    /\ \A n \in AllNodes :
         opened[c][n] > 0 =>
           \/ n = Resolve(fs, root[c])
           \/ fs.ent[n].kind = "dir" /\ Under(fs, n, Resolve(fs, root[c]))
    /\ \A n \in AllNodes :
         (credited[c][n].count > 0 \/ credited[c][n].bytes > 0)
           => Under(fs, n, Resolve(fs, root[c]))

\* the scanned directory holds a link to the top directory, which holds a
\* file outside the scanned tree: the link counted once, the file never
C4_Witness ==
  /\ pc[1] = "done"
  /\ \E s \in Nodes, x \in Nodes :
       /\ fs.parent[s] = root[1]
       /\ fs.ent[s] = SymlinkTo(Top)
       /\ fs.ent[root[1]] = DirOk
       /\ root[1] # Top
       /\ fs.parent[x] = Top
       /\ fs.ent[x] = FileOf(MaxLen)
       /\ credited[1][s] = [count |-> 1, bytes |-> 0]
       /\ credited[1][x] = [count |-> 0, bytes |-> 0]
       /\ opened[1][Top] = 0

\* C8: every one of the interleaved aggregate_size calls returns what
\* calc_size gives for its root on its own.
C8_CallsIndependent ==
  \A c \in Calls :
    /\ pc[c] \in {"returned", "done"} => ret[c] = calc_size(fs, root[c])
    /\ pc[c] = "done" => result[c] = FolderSize(fs, root[c], calc_size(fs, root[c]))

\* all calls have finished, two of them with different results, after
\* having walked at the same time
C8_Witness ==
  /\ overlapped
  /\ \A c \in Calls : pc[c] = "done"
  /\ \E c, d \in Calls :
       /\ root[c] # root[d]
       /\ ReadDirOk(fs, root[c]) /\ ReadDirOk(fs, root[d])
       /\ result[c].item_count > result[d].item_count

\* no directory is opened twice by one call, and calc_size never nests
\* deeper than there are directories
C10_OpenedOnce ==
  \A c \in Calls :
    /\ \A n \in AllNodes : opened[c][n] <= 1
    /\ Len(stack[c]) < MaxDepth

\* C10: a spawned aggregate_size call reaches its result, also over trees
\* whose symlinks point to an ancestor or to each other, and opens each
\* directory at most once.
C10_Terminates ==
  /\ []C10_OpenedOnce
  /\ (pc[1] = "spawned") ~> (pc[1] = "done")

\* a finished walk of a directory that holds a link to the top directory (an
\* ancestor) and two links that point to each other
C10_Witness ==
  /\ pc[1] = "done"
  /\ ReadDirOk(fs, root[1])
  /\ \E a, b, d \in Nodes :
       /\ {a, b, d} \subseteq Measured(fs, root[1])
       /\ fs.ent[a] = SymlinkTo(Top)
       /\ fs.ent[b] = SymlinkTo(d)
       /\ fs.ent[d] = SymlinkTo(b)
       /\ b # d
  /\ result[1].item_count >= 3

(***************************************************************************)
(* Case-insensitive order of names, position by position.                  *)
(***************************************************************************)
Fold(ch) == IF ch \in 65..90 THEN ch + 32 ELSE ch

NameLeq(s, t) ==
  \/ /\ Len(s) <= Len(t)
     /\ \A i \in 1..Len(s) : Fold(s[i]) = Fold(t[i])
  \/ \E k \in 1..Len(s) :
       /\ k <= Len(t)
       /\ \A i \in 1..(k - 1) : Fold(s[i]) = Fold(t[i])
       /\ Fold(s[k]) < Fold(t[k])

\* C2: a successful list_children result has every directory before every
\* file, and inside each of the two groups the names in non-decreasing
\* case-insensitive lexicographic order.
C2_Sorted ==
  listing.tag = "Ok" =>
    \A i, j \in 1..Len(listing.entries) :
      i < j =>
        /\ ~(~listing.entries[i].is_dir /\ listing.entries[j].is_dir)
        /\ listing.entries[i].is_dir = listing.entries[j].is_dir
             => NameLeq(listing.entries[i].name, listing.entries[j].name)

\* a listing of three entries: the directory "Ab", then the file "ab" ahead
\* of the file "B", which byte order would put the other way round
C2_Witness ==
  /\ listing.tag = "Ok"
  /\ Len(listing.entries) >= 3
  /\ listing.entries[1].is_dir /\ listing.entries[1].name = <<65, 98>>
  /\ ~listing.entries[2].is_dir /\ listing.entries[2].name = <<97, 98>>
  /\ ~listing.entries[3].is_dir /\ listing.entries[3].name = <<66>>

\* C5: list_children fails exactly when its directory cannot be opened, and
\* a successful result holds no child whose metadata cannot be read.
C5_ErrorIffUnopenable ==
  listing.tag # "None" =>
    /\ (listing.tag = "Err") <=> ~ReadDirOk(fs, listing.path)
    /\ listing.tag = "Ok" =>
         \A i \in 1..Len(listing.entries) : fs.ent[listing.entries[i].path].meta

\* a successful listing of a directory that holds an unreadable child next
\* to a listed one
C5_Witness ==
  /\ listing.tag = "Ok"
  /\ Len(listing.entries) >= 1
  /\ \E n \in ReadDir(fs, listing.path) : ~fs.ent[n].meta

\* C6: a listed directory's item_count is the number of all its direct
\* children, whatever their type and readability, and 0 when it cannot be
\* opened.
C6_DirectChildCount ==
  listing.tag = "Ok" =>
    \A i \in 1..Len(listing.entries) :
      listing.entries[i].is_dir =>
        listing.entries[i].item_count =
          IF fs.ent[listing.entries[i].path].open
            THEN Cardinality({n \in Nodes : fs.parent[n] = listing.entries[i].path})
            ELSE 0

\* a listed directory that holds a symlink (or device) and an unreadable
\* entry has item_count 2, and one that cannot be opened but holds an entry
\* has 0
C6_Witness ==
  /\ listing.tag = "Ok"
  /\ \E i \in 1..Len(listing.entries) :
       LET d == listing.entries[i].path IN
         /\ listing.entries[i].is_dir
         /\ \/ /\ listing.entries[i].item_count = 2
               /\ \E a, b \in Nodes :
                    /\ fs.parent[a] = d /\ fs.parent[b] = d
                    /\ fs.ent[a].kind \in {"symlink", "other"}
                    /\ ~fs.ent[b].meta
            \/ /\ listing.entries[i].item_count = 0
               /\ fs.ent[d] = DirNoOpen
               /\ \E a \in Nodes : fs.parent[a] = d

\* C7: every listed Entry is an immediate child of the requested directory
\* and is either a real directory with size 0 or a regular file with its
\* byte length as size and item_count 0; no other type is listed.
C7_EntryShape ==
  listing.tag = "Ok" =>
    \A i \in 1..Len(listing.entries) :
      LET x == listing.entries[i] IN
        /\ x.path \in Nodes
        /\ fs.parent[x.path] = Resolve(fs, listing.path)
        /\ \/ x.is_dir /\ fs.ent[x.path].kind = "dir" /\ x.size = 0
           \/ /\ ~x.is_dir
              /\ fs.ent[x.path].kind = "file"
              /\ x.size = fs.ent[x.path].len
              /\ x.item_count = 0

\* a listing with a file of MaxLen bytes, of a directory that also holds a
\* symlink and a subdirectory with a child of its own
C7_Witness ==
  /\ listing.tag = "Ok"
  /\ \E i \in 1..Len(listing.entries) :
       ~listing.entries[i].is_dir /\ listing.entries[i].size = MaxLen
  /\ \E i \in 1..Len(listing.entries) : listing.entries[i].is_dir
  /\ \E n \in ReadDir(fs, listing.path) : fs.ent[n].kind = "symlink"
  /\ Len(listing.entries) < Cardinality(ReadDir(fs, listing.path))

\* C9: each reported volume has used_space = total_space - available_space
\* when available_space <= total_space and 0 otherwise, so used_space never
\* exceeds total_space and never wraps.
C9_UsedSpaceSaturates ==
  drives.tag = "Ok" =>
    /\ Len(drives.list) = Len(disks)
    /\ \A i \in 1..Len(drives.list) :
         LET v == drives.list[i] IN
           /\ v.total_space = disks[i].total_space
           /\ v.available_space = disks[i].available_space
           /\ v.available_space <= v.total_space
                => v.used_space = v.total_space - v.available_space
           /\ v.available_space > v.total_space => v.used_space = 0
           /\ v.used_space <= v.total_space

\* a reported volume whose available space exceeds its total space
C9_Witness ==
  /\ drives.tag = "Ok"
  /\ \E i \in 1..Len(drives.list) :
       /\ drives.list[i].available_space > drives.list[i].total_space
       /\ drives.list[i].used_space = 0

=============================================================================
